---- MODULE Spec2Model ----
(***************************************************************************)
(* Room pollers of ide-agent-kit: poll (lastSeenId) and pollRoom           *)
(* (lastSeenMessageId).  A timer starts poll cycles; each cycle fetches    *)
(* the newest message of the room, advances a watermark that is also       *)
(* written to a cache file, and injects "check room" into a tmux session   *)
(* when the message body matches a trigger.                                *)
(***************************************************************************)
EXTENDS Integers, Sequences, FiniteSets, TLC

\* ---------------------------------------------------------------- bounds
\* messages ever posted to the room
MaxMsgs == 2
\* poll cycles started (timer ticks plus start-up calls), over all lifetimes
MaxCycles == 4
\* poll cycles whose promises are pending at the same time
MaxInFlight == 3
\* process crashes followed by a restart
MaxCrashes == 1
\* writeFileSync calls that throw
MaxWriteFails == 1

\* ---------------------------------------------------------------- strings
\* Strings are sequences of character codes.
\* "bot"
StrBot ==
    <<98, 111, 116>>
\* "Bot"
StrBotCap ==
    <<66, 111, 116>>
\* "check room"
StrCheckRoom ==
    <<99, 104, 101, 99, 107, 32, 114, 111, 111, 109>>
\* "@"
StrAt ==
    <<64>>
\* "hello"
BodyHello ==
    <<104, 101, 108, 108, 111>>
\* "CHECK Room"
BodyShout ==
    <<67, 72, 69, 67, 75, 32, 82, 111, 111, 109>>
\* "@bot please check room"
BodyMention ==
    <<64, 98, 111, 116, 32, 112, 108, 101, 97, 115, 101, 32, 99, 104, 101,
      99, 107, 32, 114, 111, 111, 109>>
\* "bot: check room now"
BodySelf ==
    <<98, 111, 116, 58, 32, 99, 104, 101, 99, 107, 32, 114, 111, 111, 109,
      32, 110, 111, 119>>
\* "Bot: check room"
BodyCapSelf ==
    <<66, 111, 116, 58, 32, 99, 104, 101, 99, 107, 32, 114, 111, 111, 109>>

\* "@bot hi"
BodyPing ==
    <<64, 98, 111, 116, 32, 104, 105>>

\* message bodies other users and the bot itself post to the room
Bodies ==
    <<BodyHello, BodyShout, BodyMention, BodySelf, BodyCapSelf, BodyPing>>

\* values of --handle on the command line
HandleArgs ==
    {StrBot}

\* values of --handle in the scenario and in the store specification
WideHandleArgs ==
    {StrBot, StrBotCap}

\* indices of the bodies posted in the general specification ("bot: check
\* room now" is treated by both pollers exactly as "@bot please check room")
PostedBodies ==
    {1, 2, 3, 5}

\* the two pollers
Impls ==
    {"poll", "pollRoom"}

\* String.prototype.toLowerCase on one character code
lowerChar(ch) ==
    IF ch >= 65 /\ ch <= 90 THEN ch + 32 ELSE ch

\* String.prototype.toLowerCase
toLowerCase(s) ==
    [i \in 1..Len(s) |-> lowerChar(s[i])]

\* String.prototype.includes
includes(s, sub) ==
    \E i \in 0..(Len(s) - Len(sub)) : SubSeq(s, i + 1, i + Len(sub)) = sub

\* String.prototype.replace('@', ''): the first "@" is removed
replaceAt(s) ==
    IF \E i \in 1..Len(s) : s[i] = 64
    THEN LET k == CHOOSE i \in 1..Len(s) :
                      s[i] = 64 /\ \A j \in 1..(i - 1) : s[j] # 64
         IN  SubSeq(s, 1, k - 1) \o SubSeq(s, k + 1, Len(s))
    ELSE s

\* ---------------------------------------------------------------- memory
\* "a"
KeyA == <<97>>
\* "a.md"
KeyAMd == <<97, 46, 109, 100>>
\* "a-b"
KeyADashB == <<97, 45, 98>>
\* "a/ b"
KeyASlashB == <<97, 47, 32, 98>>
\* "A"
KeyCapA == <<65>>

\* keys the callers use
Keys == {KeyA, KeyAMd, KeyADashB, KeyASlashB, KeyCapA}

\* "", "x" and "é€\n" as UTF-16 code units
Values == {<<>>, <<120>>, <<233, 8364, 10>>}

\* "2026-01-01 00:00:00"
Timestamps ==
    {<<50, 48, 50, 54, 45, 48, 49, 45, 48, 49, 32, 48, 48, 58, 48, 48, 58,
       48, 48>>}

\* memoryAppend calls in one run
MaxAppends == 1

\* [a-zA-Z0-9._-]
isSafeChar(ch) ==
    \/ ch >= 97 /\ ch <= 122
    \/ ch >= 65 /\ ch <= 90
    \/ ch >= 48 /\ ch <= 57
    \/ ch \in {46, 95, 45}

\* replace(/-+/g, '-')
RECURSIVE collapseDashes(_)
collapseDashes(s) ==
    IF Len(s) < 2 THEN s
    ELSE IF s[1] = 45 /\ s[2] = 45 THEN collapseDashes(Tail(s))
    ELSE <<s[1]>> \o collapseDashes(Tail(s))

\* replace(/[^a-zA-Z0-9._-]/g, '-').replace(/-+/g, '-')
sanitizeKey(key) ==
    collapseDashes([i \in 1..Len(key) |->
                       IF isSafeChar(key[i]) THEN key[i] ELSE 45])

\* String.prototype.endsWith
endsWith(s, suf) ==
    /\ Len(s) >= Len(suf)
    /\ SubSeq(s, Len(s) - Len(suf) + 1, Len(s)) = suf

\* ".md"
StrMd == <<46, 109, 100>>

\* the file name inside the memory directory
keyToPath(key) ==
    IF endsWith(sanitizeKey(key), StrMd) THEN sanitizeKey(key)
    ELSE sanitizeKey(key) \o StrMd

\* the bytes writeFileSync stores for a string (UTF-8; the values hold no
\* surrogates)
RECURSIVE utf8Encode(_)
utf8Encode(s) ==
    IF s = <<>> THEN <<>>
    ELSE (IF Head(s) < 128 THEN <<Head(s)>>
          ELSE IF Head(s) < 2048
               THEN <<192 + (Head(s) \div 64), 128 + (Head(s) % 64)>>
               ELSE <<224 + (Head(s) \div 4096),
                      128 + ((Head(s) \div 64) % 64),
                      128 + (Head(s) % 64)>>)
         \o utf8Encode(Tail(s))

\* readFileSync(path, 'utf8') on bytes that utf8Encode produced
RECURSIVE utf8Decode(_)
utf8Decode(bytes) ==
    IF bytes = <<>> THEN <<>>
    ELSE IF bytes[1] < 128
         THEN <<bytes[1]>> \o utf8Decode(Tail(bytes))
    ELSE IF bytes[1] < 224
         THEN <<(bytes[1] - 192) * 64 + (bytes[2] - 128)>>
              \o utf8Decode(SubSeq(bytes, 3, Len(bytes)))
    ELSE <<(bytes[1] - 224) * 4096 + (bytes[2] - 128) * 64
             + (bytes[3] - 128)>>
         \o utf8Decode(SubSeq(bytes, 4, Len(bytes)))

NoFiles == [p \in {} |-> <<>>]
NoOp == [name |-> "none", key |-> <<>>, value |-> <<>>,
         found |-> FALSE, content |-> <<>>]
NoMemory == [dir |-> NoFiles, op |-> NoOp, appends |-> 0]

\* the directory after writeFileSync(path, text)
writeFile(dir, path, text) ==
    [p \in DOMAIN dir \cup {path} |->
        IF p = path THEN utf8Encode(text) ELSE dir[p]]

\* the directory after unlinkSync(path)
unlink(dir, path) ==
    [p \in DOMAIN dir \ {path} |-> dir[p]]

\* memoryGet reading the file with one code unit per byte ('latin1')
memoryGetLatin1(dir, key) ==
    IF keyToPath(key) \in DOMAIN dir
    THEN [found |-> TRUE, content |-> dir[keyToPath(key)]]
    ELSE [found |-> FALSE, content |-> <<>>]

\* what memoryGet returns: content (found) or null with 'not found'
memoryGet(dir, key) ==
    IF keyToPath(key) \in DOMAIN dir
    THEN [found |-> TRUE, content |-> utf8Decode(dir[keyToPath(key)])]
    ELSE [found |-> FALSE, content |-> <<>>]

\* the entry memoryAppend adds to the existing text
appendEntry(existing, ts, value) ==
    (IF existing # <<>> /\ ~endsWith(existing, <<10>>) THEN <<10>> ELSE <<>>)
    \o <<10, 35, 35, 32>> \o ts \o <<10, 10>> \o value \o <<10>>

\* ---------------------------------------------------------------- gateway
\* Longest response text of the gateway client's transport command.
MaxOut == 3

Space == 32
One == 49
LetterX == 120
Quote == 34

OutChars == {Space, One, LetterX, Quote}

\* what curl can print: every text of up to MaxOut characters
Stdouts == UNION {[1..n -> OutChars] : n \in 0..MaxOut}

isWs(ch) == ch = Space

RECURSIVE trimStart(_)
trimStart(s) ==
    IF s # <<>> /\ isWs(Head(s)) THEN trimStart(Tail(s)) ELSE s

RECURSIVE trimEnd(_)
trimEnd(s) ==
    IF s # <<>> /\ isWs(s[Len(s)])
    THEN trimEnd(SubSeq(s, 1, Len(s) - 1))
    ELSE s

\* String.prototype.trim
trim(s) == trimEnd(trimStart(s))

\* JSON texts over OutChars: a number of digits or a quoted string, with
\* white space allowed around it
isNumber(t) ==
    /\ t # <<>>
    /\ \A i \in 1..Len(t) : t[i] = One

isString(t) ==
    /\ Len(t) >= 2
    /\ t[1] = Quote
    /\ t[Len(t)] = Quote
    /\ \A i \in 2..(Len(t) - 1) : t[i] # Quote

isJSON(s) == isNumber(trim(s)) \/ isString(trim(s))

\* JSON.parse of a text that is JSON: the number, or the string's content
JSONparse(s) ==
    IF isNumber(trim(s))
    THEN [type |-> "number", text |-> trim(s)]
    ELSE [type |-> "string", text |-> SubSeq(trim(s), 2, Len(trim(s)) - 1)]

\* execSync(cmd, {timeout}): curl exits 0 with its output, exits non-zero,
\* or is killed at the timeout
Outcomes ==
    {[exit |-> "ok", stdout |-> s] : s \in Stdouts}
    \cup {[exit |-> e, stdout |-> <<>>] : e \in {"error", "timeout"}}

NoOutcome == [exit |-> "none", stdout |-> <<>>]
NoData == [type |-> "none", text |-> <<>>]
NoCall == [pc |-> "none", wrapper |-> "none", arg |-> "none", out |-> NoOutcome]
NoReply == [kind |-> "none", data |-> NoData]

\* the promise of the async function rejects
Thrown == [kind |-> "throw", data |-> [type |-> "error", text |-> <<>>]]

\* the try block around execSync and JSON.parse
execResult(o) ==
    IF o.exit # "ok"
    THEN [kind |-> "fail", data |-> [type |-> "error", text |-> <<>>]]
    ELSE IF isJSON(o.stdout)
         THEN [kind |-> "ok", data |-> JSONparse(o.stdout)]
         ELSE [kind |-> "ok", data |-> [type |-> "string", text |-> trim(o.stdout)]]

\* JSON.stringify throws a TypeError on a value that holds a cycle or a BigInt
serialises(v) == v # "cyclic"

\* the command, body included, is built before the try block
rpc(params, o) ==
    IF ~serialises(params) THEN Thrown ELSE execResult(o)

gwFetch(body, o) ==
    IF body # "null" /\ ~serialises(body) THEN Thrown ELSE execResult(o)

Wrappers == {"cronList", "cronRemove", "configPatch", "healthCheck"}

\* the caller's params / patch argument: a plain object, an object that
\* holds a cycle or a BigInt, or left out
Args == {"object", "cyclic", "undefined"}

cronList(a, o) == rpc("object", o)

\* reads params.jobId before the call
cronRemove(a, o) ==
    IF a = "undefined" THEN Thrown ELSE rpc(a, o)

\* { method, params: { patch } }: an undefined patch is dropped by stringify
configPatch(a, o) ==
    gwFetch(IF a = "undefined" THEN "object" ELSE a, o)

healthCheck(a, o) == gwFetch("null", o)

wrapper(w, a, o) ==
    CASE w = "cronList" -> cronList(a, o)
      [] w = "cronRemove" -> cronRemove(a, o)
      [] w = "configPatch" -> configPatch(a, o)
      [] w = "healthCheck" -> healthCheck(a, o)

\* ---------------------------------------------------------------- state
VARIABLES
    memory,       \* the memory directory and the last memory operation
    replay,       \* the comparison of the two pollers: feed, position, logs
    request,      \* the last gateway call: wrapper, argument, transport outcome
    reply,        \* what that call returned or threw
    impl,         \* which poller runs
    handleArg,    \* the --handle argument
    room,         \* bodies of the room's messages, oldest first; id = index
    lastSeenId,   \* in-memory watermark (lastSeenId / lastSeenMessageId)
    cacheFile,    \* .poller_cache_<handle>.json
    cycles,       \* pending poll cycles: position and fetched message id
    dispatches,   \* per message id: dispatch attempts of this lifetime
    prior,        \* per message id: dispatch attempts of earlier lifetimes
    evaluated,    \* ids compared as different with a watermark that was set
    writeFailed,  \* a writeFileSync threw in this lifetime
    nCycles,      \* poll cycles started
    nCrashes,     \* crashes so far
    nWriteFails,  \* failed writes so far
    wasNewest,    \* ids that were the room's newest at the moment of a fetch
    unreachable,  \* ids whose dispatch found the tmux session unreachable
    last          \* the latest event of the poller and the id it was about

vars ==
    <<memory, replay, request, reply, impl, handleArg, room, lastSeenId, cacheFile, cycles, dispatches,
      prior, evaluated, writeFailed, nCycles, nCrashes, nWriteFails,
      wasNewest, unreachable, last>>

\* JavaScript null / undefined watermark
null == 0

Slots == 1..MaxInFlight
MsgIds == 1..MaxMsgs

\* the handle the poller compares with
handle ==
    IF impl = "poll" THEN replaceAt(handleArg) ELSE toLowerCase(handleArg)

\* key of the record in the cache file
cacheKey ==
    IF impl = "poll" THEN "lastSeenId" ELSE "lastSeenMessageId"

\* A file is absent, unparseable, or holds a JSON object (a function
\* from field names to values).
NoFields == [k \in {} |-> null]
NoFile == [st |-> "absent", obj |-> NoFields]
Truncated == [st |-> "truncated", obj |-> NoFields]

\* JSON.stringify({ lastSeenId })
stringify(id) ==
    [st |-> "json", obj |-> [k \in {cacheKey} |-> id]]

\* the start-up load reading the field name of the other poller
loadCacheOtherKey(f) ==
    IF f.st = "json" /\ "lastSeenId" \in DOMAIN f.obj
    THEN f.obj["lastSeenId"] ELSE null

\* start-up load of the cache file: existsSync, JSON.parse, field access
loadCache(f) ==
    IF f.st = "json" /\ cacheKey \in DOMAIN f.obj
    THEN f.obj[cacheKey] ELSE null

NoCycle == [pc |-> "none", msg |-> null]

\* cycles pending right after start-up: poll() is called once at load
startCycles ==
    [c \in Slots |-> IF c = 1 /\ impl = "poll"
                     THEN [pc |-> "fetch", msg |-> null] ELSE NoCycle]

\* no comparison of the two pollers is running
NoReplay ==
    [feed |-> <<>>, pos |-> 1, open |-> FALSE, start |-> null,
     logs |-> [im \in Impls |-> <<>>]]

\* isFirstRun without the first-run branch: a none watermark is compared
\* like any other
isFirstRunNever ==
    FALSE

\* !lastSeenId
isFirstRun ==
    lastSeenId = null

\* isSelfAuthored with startsWith in place of includes
isSelfAuthoredPrefix(body) ==
    IF impl = "poll" THEN SubSeq(body, 1, Len(handle)) = handle
    ELSE SubSeq(toLowerCase(body), 1, Len(handle)) = handle

\* isSelfAuthored without the anti-echo test
isSelfAuthoredNever(body) ==
    FALSE

\* the anti-echo test on a message body
isSelfAuthored(body) ==
    IF impl = "poll" THEN includes(body, handle)
    ELSE includes(toLowerCase(body), handle)

\* isNew without the comparison with the watermark
isNewAlways(id, body) ==
    TRUE

\* isNew comparing the body where it should compare the id
isNewNotSelf(id, body) ==
    ~isSelfAuthored(body)

\* the condition under which the watermark is advanced
isNew(id, body) ==
    IF impl = "poll" THEN id # lastSeenId /\ ~isSelfAuthored(body)
    ELSE id # lastSeenId

\* isTriggerMatch with poll looking for "check room" in the body as it is
isTriggerMatchExact(body) ==
    IF impl = "poll"
    THEN includes(body, StrCheckRoom)
         \/ includes(body, StrAt \o handle)
    ELSE ~isSelfAuthored(body)
         /\ (includes(toLowerCase(body), StrCheckRoom)
             \/ includes(toLowerCase(body), StrAt \o handle))

\* the trigger test, evaluated after the watermark was advanced
isTriggerMatch(body) ==
    IF impl = "poll"
    THEN includes(toLowerCase(body), StrCheckRoom)
         \/ includes(body, StrAt \o handle)
    ELSE ~isSelfAuthored(body)
         /\ (includes(toLowerCase(body), StrCheckRoom)
             \/ includes(toLowerCase(body), StrAt \o handle))

\* first step of the dispatch sequence
firstDispatchStep ==
    IF impl = "poll" THEN "inject" ELSE "probe"

Init ==
    /\ replay = NoReplay
    /\ memory = NoMemory
    /\ request = NoCall
    /\ reply = NoReply
    /\ impl \in Impls
    /\ handleArg \in HandleArgs
    /\ room = <<>>
    /\ lastSeenId = null
    /\ cacheFile = NoFile
    /\ cycles = startCycles
    /\ dispatches = [m \in MsgIds |-> 0]
    /\ prior = [m \in MsgIds |-> 0]
    /\ evaluated = {}
    /\ writeFailed = FALSE
    /\ nCycles = IF impl = "poll" THEN 1 ELSE 0
    /\ nCrashes = 0
    /\ nWriteFails = 0
    /\ wasNewest = {}
    /\ unreachable = {}
    /\ last = [ev |-> "start", msg |-> null]

\* somebody posts a message to the room
Post(b) ==
    /\ Len(room) < MaxMsgs
    /\ room' = Append(room, b)
    /\ UNCHANGED <<memory, replay, request, reply, impl, handleArg, lastSeenId, cacheFile, cycles,
                   dispatches, prior, evaluated, writeFailed, nCycles,
                   nCrashes, nWriteFails, wasNewest, unreachable,
                   last>>

\* setInterval fires: poll() / pollRoom() runs up to its fetch
Tick(c) ==
    /\ nCycles < MaxCycles
    /\ cycles[c].pc = "none"
    /\ \A d \in 1..(c - 1) : cycles[d].pc # "none"
    /\ cycles' = [cycles EXCEPT ![c] = [pc |-> "fetch", msg |-> null]]
    /\ nCycles' = nCycles + 1
    /\ UNCHANGED <<memory, replay, request, reply, impl, handleArg, room, lastSeenId, cacheFile, dispatches,
                   prior, evaluated, writeFailed, nCrashes, nWriteFails,
                   wasNewest, unreachable, last>>

\* order=created_at.desc&limit=1 with the oldest message in place of the
\* newest
newestAscending ==
    IF Len(room) > 0 THEN 1 ELSE null

\* order=created_at.desc&limit=1: the id of the newest message, if any
newest ==
    Len(room)

\* the server answers the query with the newest message (or none)
FetchRespond(c) ==
    /\ cycles[c].pc = "fetch"
    /\ cycles' = [cycles EXCEPT ![c] = [pc |-> "resp", msg |-> newest]]
    /\ wasNewest' = wasNewest \cup (1..Len(room) \ 1..(Len(room) - 1))
    /\ UNCHANGED <<memory, replay, request, reply, impl, handleArg, room, lastSeenId, cacheFile, dispatches,
                   prior, evaluated, writeFailed, nCycles, nCrashes,
                   nWriteFails, unreachable, last>>

\* FetchFail with a catch block that forgets the watermark
FetchFailReset(c) ==
    /\ cycles[c].pc = "fetch"
    /\ cycles' = [cycles EXCEPT ![c] = NoCycle]
    /\ lastSeenId' = null
    /\ last' = [ev |-> "fetchFail", msg |-> null]
    /\ UNCHANGED <<memory, replay, request, reply, impl, handleArg, room, cacheFile, dispatches,
                   prior, evaluated, writeFailed, nCycles, nCrashes,
                   nWriteFails, wasNewest, unreachable>>

\* the fetch throws, or answers non-OK / with an error: the cycle ends
FetchFail(c) ==
    /\ cycles[c].pc = "fetch"
    /\ cycles' = [cycles EXCEPT ![c] = NoCycle]
    /\ last' = [ev |-> "fetchFail", msg |-> null]
    /\ UNCHANGED <<memory, replay, request, reply, impl, handleArg, room, lastSeenId, cacheFile, dispatches,
                   prior, evaluated, writeFailed, nCycles, nCrashes,
                   nWriteFails, wasNewest, unreachable>>

\* the outcomes of one writeFileSync call
WriteOutcomes ==
    IF nWriteFails < MaxWriteFails
    THEN {"ok", "failOpen", "failWrite"} ELSE {"ok"}

\* written with the record built before the assignment to the watermark
writtenBeforeAssign(id, outcome) ==
    CASE outcome = "ok" -> stringify(lastSeenId)
      [] outcome = "failOpen" -> cacheFile
      [] OTHER -> Truncated

\* the cache file after writeFileSync(CACHE_FILE, JSON.stringify({id}))
written(id, outcome) ==
    CASE outcome = "ok" -> stringify(id)
      [] outcome = "failOpen" -> cacheFile
      [] OTHER -> Truncated

\* the continuation after the fetch: compare, advance, write, decide
Resume(c) ==
    /\ cycles[c].pc = "resp"
    /\ evaluated' = IF cycles[c].msg # null /\ lastSeenId # null
                          /\ cycles[c].msg # lastSeenId
                     THEN evaluated \cup {cycles[c].msg} ELSE evaluated
    /\ LET id == cycles[c].msg
           body == Bodies[room[id]]
       IN
       IF id = null
       THEN /\ cycles' = [cycles EXCEPT ![c] = NoCycle]
            /\ last' = [ev |-> "empty", msg |-> null]
            /\ UNCHANGED <<lastSeenId, cacheFile, dispatches, writeFailed,
                           nWriteFails>>
       ELSE IF isFirstRun \/ isNew(id, body)
       THEN \E outcome \in WriteOutcomes :
            /\ lastSeenId' = id
            /\ last' = [ev |-> IF isFirstRun THEN "firstRun" ELSE "new",
                         msg |-> id]
            /\ cacheFile' = written(id, outcome)
            /\ writeFailed' = (writeFailed \/ outcome # "ok")
            /\ nWriteFails' = nWriteFails + (IF outcome = "ok" THEN 0 ELSE 1)
            /\ IF outcome = "ok" /\ ~isFirstRun /\ isTriggerMatch(body)
               THEN /\ dispatches' =
                          [dispatches EXCEPT ![id] = dispatches[id] + 1]
                    /\ cycles' = [cycles EXCEPT
                                    ![c].pc = firstDispatchStep]
               ELSE /\ dispatches' = dispatches
                    /\ cycles' = [cycles EXCEPT ![c] = NoCycle]
       ELSE /\ cycles' = [cycles EXCEPT ![c] = NoCycle]
            /\ last' = [ev |-> "notNew", msg |-> id]
            /\ UNCHANGED <<lastSeenId, cacheFile, dispatches, writeFailed,
                           nWriteFails>>
    /\ UNCHANGED <<memory, replay, request, reply, impl, handleArg, room, prior, nCycles, nCrashes,
                   wasNewest, unreachable>>

\* the step that follows a step of the dispatch sequence
nextDispatchStep(pc) ==
    CASE pc = "probe" -> "inject"
      [] pc = "inject" -> "settle"
      [] pc = "settle" -> "submit"
      [] OTHER -> "none"

\* one tmux / sleep command of the dispatch sequence completes
DispatchStep(c) ==
    /\ cycles[c].pc \in {"probe", "inject", "settle", "submit"}
    /\ cycles' = [cycles EXCEPT ![c] =
                     IF nextDispatchStep(cycles[c].pc) = "none" THEN NoCycle
                     ELSE [pc |-> nextDispatchStep(cycles[c].pc),
                           msg |-> cycles[c].msg]]
    /\ last' = IF cycles[c].pc = "submit"
               THEN [ev |-> "submitted", msg |-> cycles[c].msg] ELSE last
    /\ UNCHANGED <<memory, replay, request, reply, impl, handleArg, room, lastSeenId, cacheFile, dispatches,
                   prior, evaluated, writeFailed, nCycles, nCrashes,
                   nWriteFails, wasNewest, unreachable>>

\* a tmux command fails: the exception is caught and the cycle ends
DispatchFail(c) ==
    /\ cycles[c].pc \in {"probe", "inject", "submit"}
    /\ cycles' = [cycles EXCEPT ![c] = NoCycle]
    /\ unreachable' = IF cycles[c].pc = firstDispatchStep
                      THEN unreachable \cup {cycles[c].msg} ELSE unreachable
    /\ last' = [ev |-> "dispatchFail", msg |-> cycles[c].msg]
    /\ UNCHANGED <<memory, replay, request, reply, impl, handleArg, room, lastSeenId, cacheFile, dispatches,
                   prior, evaluated, writeFailed, nCycles, nCrashes,
                   nWriteFails, wasNewest>>

\* the process state right after a restart that finds file f
restarted(f) ==
    /\ lastSeenId' = loadCache(f)
    /\ cacheFile' = f
    /\ cycles' = startCycles
    /\ prior' = [m \in MsgIds |-> prior[m] + dispatches[m]]
    /\ dispatches' = [m \in MsgIds |-> 0]
    /\ writeFailed' = FALSE
    /\ nCrashes' = nCrashes + 1
    /\ nCycles' = nCycles + (IF impl = "poll" THEN 1 ELSE 0)
    /\ last' = [ev |-> "load", msg |-> loadCache(f)]
    /\ UNCHANGED <<memory, replay, request, reply, impl, handleArg, room, evaluated, nWriteFails, wasNewest,
                   unreachable>>

\* the process is killed between two steps and started again
Restart ==
    /\ nCrashes < MaxCrashes
    /\ nCycles < MaxCycles
    /\ restarted(cacheFile)

\* the process is killed inside writeFileSync, after the file was opened
\* (truncated) and before the data was written, and started again
CrashInWrite(c) ==
    /\ nCrashes < MaxCrashes
    /\ nCycles < MaxCycles
    /\ cycles[c].pc = "resp"
    /\ cycles[c].msg # null
    /\ isFirstRun \/ isNew(cycles[c].msg, Bodies[room[cycles[c].msg]])
    /\ restarted(Truncated)

Next ==
    \/ \E b \in PostedBodies : Post(b)
    \/ \E c \in Slots : Tick(c)
    \/ \E c \in Slots : FetchRespond(c)
    \/ \E c \in Slots : FetchFail(c)
    \/ \E c \in Slots : Resume(c)
    \/ \E c \in Slots : DispatchStep(c)
    \/ \E c \in Slots : DispatchFail(c)
    \/ Restart
    \/ \E c \in Slots : CrashInWrite(c)

Spec == Init /\ [][Next]_vars

\* What the scheduling guarantees: the event loop runs the continuation of
\* a settled fetch, and a started tmux or sleep command exits (with success
\* or with an error).  Nothing bounds the fetch itself: neither poller
\* passes a timeout or an abort signal.
Fairness ==
    \A c \in Slots :
        /\ WF_vars(Resume(c))
        /\ WF_vars(DispatchStep(c) \/ DispatchFail(c))

SpecLive == Init /\ [][Next]_vars /\ Fairness

\* ------------------------------------------------- the scenario of C9
\* No poll cycle is pending.
Idle ==
    \A c \in Slots : cycles[c].pc = "none"

\* The room holds m1 = "hello" from the start, polls never overlap and
\* never fail to fetch, and the second message is posted between the
\* second and the third poll.
Next9Post(b) ==
    /\ nCycles = 2
    /\ Idle
    /\ Post(b)

Next9Tick ==
    /\ Idle
    /\ Tick(1)

Init9 ==
    /\ replay = NoReplay
    /\ memory = NoMemory
    /\ request = NoCall
    /\ reply = NoReply
    /\ impl \in Impls
    /\ handleArg \in WideHandleArgs
    /\ room = <<1>>
    /\ lastSeenId = null
    /\ cacheFile = NoFile
    /\ cycles = startCycles
    /\ dispatches = [m \in MsgIds |-> 0]
    /\ prior = [m \in MsgIds |-> 0]
    /\ evaluated = {}
    /\ writeFailed = FALSE
    /\ nCycles = IF impl = "poll" THEN 1 ELSE 0
    /\ nCrashes = 0
    /\ nWriteFails = 0
    /\ wasNewest = {}
    /\ unreachable = {}
    /\ last = [ev |-> "start", msg |-> null]

Next9 ==
    \/ \E b \in 1..Len(Bodies) : Next9Post(b)
    \/ Next9Tick
    \/ FetchRespond(1)
    \/ Resume(1)
    \/ DispatchStep(1)
    \/ DispatchFail(1)

SpecScenario == Init9 /\ [][Next9]_vars

\* ------------------------------------------------- the store of C18
\* A writer other than the poller (a later version, another tool) adds a
\* field the poller does not know to the stored record.
Annotate ==
    /\ cacheFile.st = "json"
    /\ "note" \notin DOMAIN cacheFile.obj
    /\ cacheFile' =
         [cacheFile EXCEPT !.obj =
            [k \in DOMAIN cacheFile.obj \cup {"note"} |->
               IF k = "note" THEN null ELSE cacheFile.obj[k]]]
    /\ UNCHANGED <<memory, replay, request, reply, impl, handleArg, room, lastSeenId, cycles, dispatches,
                   prior, evaluated, writeFailed, nCycles, nCrashes,
                   nWriteFails, wasNewest, unreachable, last>>

\* One cycle at a time, either handle, and records with unknown fields.
InitStore ==
    /\ replay = NoReplay
    /\ memory = NoMemory
    /\ request = NoCall
    /\ reply = NoReply
    /\ impl \in Impls
    /\ handleArg \in WideHandleArgs
    /\ room = <<>>
    /\ lastSeenId = loadCache(NoFile)
    /\ cacheFile = NoFile
    /\ cycles = startCycles
    /\ dispatches = [m \in MsgIds |-> 0]
    /\ prior = [m \in MsgIds |-> 0]
    /\ evaluated = {}
    /\ writeFailed = FALSE
    /\ nCycles = IF impl = "poll" THEN 1 ELSE 0
    /\ nCrashes = 0
    /\ nWriteFails = 0
    /\ wasNewest = {}
    /\ unreachable = {}
    /\ last = [ev |-> "load", msg |-> loadCache(NoFile)]

NextStore ==
    \/ \E b \in PostedBodies : Post(b)
    \/ Next9Tick
    \/ FetchRespond(1)
    \/ FetchFail(1)
    \/ Resume(1)
    \/ DispatchStep(1)
    \/ DispatchFail(1)
    \/ Restart
    \/ CrashInWrite(1)
    \/ Annotate

SpecStore == InitStore /\ [][NextStore]_vars

\* ------------------------------------------------- every body, either handle
\* The general specification with every body of Bodies posted and with
\* either spelling of the handle.
NextTrigger ==
    \/ \E b \in 1..Len(Bodies) : Post(b)
    \/ \E c \in Slots : Tick(c)
    \/ \E c \in Slots : FetchRespond(c)
    \/ \E c \in Slots : FetchFail(c)
    \/ \E c \in Slots : Resume(c)
    \/ \E c \in Slots : DispatchStep(c)
    \/ \E c \in Slots : DispatchFail(c)
    \/ Restart
    \/ \E c \in Slots : CrashInWrite(c)

SpecTrigger == InitStore /\ [][NextTrigger]_vars

\* ------------------------------------------------- the two pollers compared
\* Fetch results of one comparison.
MaxFeed == 3

\* sequences of fetch results: the id of the returned message, or none
Feeds == UNION {[1..n -> {null} \cup MsgIds] : n \in 1..MaxFeed}

\* bodies that do not contain handle h in any letter casing
HandleFree(h) ==
    {b \in 1..Len(Bodies) :
        ~includes(toLowerCase(Bodies[b]), toLowerCase(h))}

\* the cache file a poller of implementation im finds for watermark id
cacheFor(im, id) ==
    IF id = null THEN NoFile
    ELSE [st |-> "json",
          obj |-> [k \in {IF im = "poll" THEN "lastSeenId"
                           ELSE "lastSeenMessageId"} |-> id]]

\* poll is started with a lower-case handle, a room of handle-free
\* messages, an initial watermark and a feed of fetch results.
InitEquiv ==
    /\ memory = NoMemory
    /\ request = NoCall
    /\ reply = NoReply
    /\ impl = "poll"
    /\ handleArg \in {h \in HandleArgs : h = toLowerCase(h)}
    /\ room \in [1..MaxMsgs -> HandleFree(handleArg)]
    /\ \E s \in {null} \cup MsgIds, f \in Feeds :
         /\ lastSeenId = s
         /\ cacheFile = cacheFor("poll", s)
         /\ replay = [feed |-> f, pos |-> 1, open |-> FALSE, start |-> s,
                      logs |-> [im \in Impls |-> <<>>]]
    /\ cycles = [c \in Slots |-> NoCycle]
    /\ dispatches = [m \in MsgIds |-> 0]
    /\ prior = [m \in MsgIds |-> 0]
    /\ evaluated = {}
    /\ writeFailed = FALSE
    /\ nCycles = 0
    /\ nCrashes = 0
    /\ nWriteFails = 0
    /\ wasNewest = {}
    /\ unreachable = {}
    /\ last = [ev |-> "start", msg |-> null]

\* a cycle starts and its fetch returns the next result of the feed
FeedFetch ==
    /\ ~replay.open
    /\ replay.pos <= Len(replay.feed)
    /\ cycles[1].pc = "none"
    /\ cycles' = [cycles EXCEPT
                    ![1] = [pc |-> "resp", msg |-> replay.feed[replay.pos]]]
    /\ replay' = [replay EXCEPT !.open = TRUE]
    /\ UNCHANGED <<memory, request, reply, impl, handleArg, room, lastSeenId,
                   cacheFile, dispatches, prior, evaluated, writeFailed,
                   nCycles, nCrashes, nWriteFails, wasNewest, unreachable,
                   last>>

\* the continuation of that cycle, with a write that succeeds
FeedResume ==
    /\ Resume(1)
    /\ nWriteFails' = nWriteFails

\* the cycle has ended: the watermark and the dispatch counts are logged
FeedDone ==
    /\ replay.open
    /\ cycles[1].pc = "none"
    /\ replay' = [replay EXCEPT
                    !.open = FALSE,
                    !.pos = replay.pos + 1,
                    !.logs[impl] = Append(replay.logs[impl],
                                          [wm |-> lastSeenId,
                                           n |-> dispatches])]
    /\ UNCHANGED <<memory, request, reply, impl, handleArg, room, lastSeenId,
                   cacheFile, cycles, dispatches, prior, evaluated,
                   writeFailed, nCycles, nCrashes, nWriteFails, wasNewest,
                   unreachable, last>>

\* poll has consumed the feed: pollRoom is started on the same handle,
\* initial watermark and feed
Switch ==
    /\ impl = "poll"
    /\ ~replay.open
    /\ replay.pos > Len(replay.feed)
    /\ impl' = "pollRoom"
    /\ lastSeenId' = replay.start
    /\ cacheFile' = cacheFor("pollRoom", replay.start)
    /\ dispatches' = [m \in MsgIds |-> 0]
    /\ evaluated' = {}
    /\ last' = [ev |-> "start", msg |-> null]
    /\ replay' = [replay EXCEPT !.pos = 1]
    /\ UNCHANGED <<memory, request, reply, handleArg, room, cycles, prior,
                   writeFailed, nCycles, nCrashes, nWriteFails, wasNewest,
                   unreachable>>

NextEquiv ==
    \/ FeedFetch
    \/ FeedResume
    \/ DispatchStep(1)
    \/ FeedDone
    \/ Switch

SpecEquiv == InitEquiv /\ [][NextEquiv]_vars

\* ------------------------------------------------- the memory store
Rest ==
    <<replay, request, reply, impl, handleArg, room, lastSeenId, cacheFile,
      cycles, dispatches, prior, evaluated, writeFailed, nCycles, nCrashes,
      nWriteFails, wasNewest, unreachable, last>>

MemorySet(k, v) ==
    /\ memory' = [memory EXCEPT
                    !.dir = writeFile(memory.dir, keyToPath(k), v),
                    !.op = [name |-> "set", key |-> k, value |-> v,
                            found |-> FALSE, content |-> <<>>]]
    /\ UNCHANGED Rest

MemoryGet(k) ==
    /\ memory' = [memory EXCEPT
                    !.op = [name |-> "get", key |-> k, value |-> <<>>,
                            found |-> memoryGet(memory.dir, k).found,
                            content |-> memoryGet(memory.dir, k).content]]
    /\ UNCHANGED Rest

MemoryAppend(k, v, ts) ==
    /\ memory.appends < MaxAppends
    /\ LET existing == IF keyToPath(k) \in DOMAIN memory.dir
                       THEN utf8Decode(memory.dir[keyToPath(k)]) ELSE <<>>
       IN  memory' = [memory EXCEPT
                        !.dir = writeFile(memory.dir, keyToPath(k),
                                   existing \o appendEntry(existing, ts, v)),
                        !.op = [name |-> "append", key |-> k, value |-> v,
                                found |-> FALSE, content |-> <<>>],
                        !.appends = memory.appends + 1]
    /\ UNCHANGED Rest

MemoryDelete(k) ==
    /\ memory' = [memory EXCEPT
                    !.dir = unlink(memory.dir, keyToPath(k)),
                    !.op = [name |-> "delete", key |-> k, value |-> <<>>,
                            found |-> keyToPath(k) \in DOMAIN memory.dir,
                            content |-> <<>>]]
    /\ UNCHANGED Rest

NextMemory ==
    \/ \E k \in Keys, v \in Values : MemorySet(k, v)
    \/ \E k \in Keys : MemoryGet(k)
    \/ \E k \in Keys, v \in Values, ts \in Timestamps : MemoryAppend(k, v, ts)
    \/ \E k \in Keys : MemoryDelete(k)

SpecMemory == Init /\ [][NextMemory]_vars

\* ------------------------------------------------- the gateway client
\* One call of an exported wrapper, from its first statement to the value
\* its promise settles with; execSync blocks, so nothing interleaves.
GatewayCall(w, a, o) ==
    /\ request.pc = "none"
    /\ request' = [pc |-> "done", wrapper |-> w, arg |-> a, out |-> o]
    /\ reply' = wrapper(w, a, o)
    /\ UNCHANGED <<memory, replay, impl, handleArg, room, lastSeenId, cacheFile,
                   cycles, dispatches, prior, evaluated, writeFailed,
                   nCycles, nCrashes, nWriteFails, wasNewest, unreachable,
                   last>>

NextRpc ==
    \E w \in Wrappers, a \in Args, o \in Outcomes : GatewayCall(w, a, o)

SpecRpc == Init /\ [][NextRpc]_vars

\* ---------------------------------------------------------------- claims
\* helpers of the claims, written on the state only
total(m) == dispatches[m] + prior[m]
bodyOf(m) == Bodies[room[m]]
\* a step in which cycle c runs the continuation after its fetch
resumes(c) ==
    /\ cycles[c].pc = "resp"
    /\ cycles'[c].pc # "resp"
    /\ nCrashes' = nCrashes
\* the write of that step did not throw
writeOk == nWriteFails' = nWriteFails

\* C1: each message id causes at most one dispatch attempt, over all polls
\* and over restarts that reload the persisted watermark.
C1_AtMostOneDispatch ==
    \A m \in MsgIds : total(m) <= 1

\* C2: once set, the watermark of a running poller is never set back to
\* none and never to the id of an older message.
C2_WatermarkMonotone ==
    [][(nCrashes' = nCrashes /\ lastSeenId # null)
         => (lastSeenId' # null /\ lastSeenId' >= lastSeenId)]_vars

\* C3: at most one poll cycle is executing at any time; a tick that fires
\* while a cycle is outstanding starts no new cycle.
C3_NoOverlap ==
    Cardinality({c \in Slots : cycles[c].pc # "none"}) <= 1

\* C4: when a dispatch attempt for m begins the cache file already names m,
\* and a message dispatched before a crash is not dispatched again after
\* the restart.
C4_DurableBeforeDispatch ==
    [][/\ \A m \in MsgIds :
            dispatches'[m] > dispatches[m] => cacheFile' = stringify(m)
       /\ \A m \in MsgIds : prior[m] > 0 => dispatches'[m] = 0]_vars

\* C5: with the watermark none, the continuation of a non-empty fetch sets
\* the watermark to the fetched id, in memory and (the write succeeding) on
\* disk, and starts no dispatch, whatever the body is.
C5_FirstRunNoDispatch ==
    [][\A c \in Slots :
         (resumes(c) /\ lastSeenId = null /\ cycles[c].msg # null)
           => /\ lastSeenId' = cycles[c].msg
              /\ writeOk => cacheFile' = stringify(cycles[c].msg)
              /\ dispatches' = dispatches
              /\ cycles'[c].pc = "none"]_vars

\* C5 witness: the only cycle so far took the first-run branch on a message
\* that carries the trigger phrase.
C5_Witness ==
    /\ nCycles = 1 /\ Idle /\ nCrashes = 0
    /\ lastSeenId = 1 /\ cacheFile = stringify(1)
    /\ bodyOf(1) = BodyShout
    /\ total(1) = 0

\* C6: a message whose body contains the handle is never dispatched, even
\* when the body also contains "check room".
C6_SelfNeverDispatches ==
    \A m \in 1..Len(room) :
        (includes(bodyOf(m), handle) \/ includes(bodyOf(m), handleArg))
          => total(m) = 0

\* C6 witness: a message with the handle and the trigger phrase in its body
\* was compared with a different, set watermark; its cycle has ended.
C6_Witness ==
    /\ Idle
    /\ \E m \in evaluated :
         /\ includes(bodyOf(m), handle)
         /\ includes(toLowerCase(bodyOf(m)), StrCheckRoom)
         /\ total(m) = 0

\* C7: with the watermark set, the continuation of a fetch of a different
\* id whose body contains the handle advances the watermark to that id, in
\* memory and on disk, and starts no dispatch.
C7_SelfAdvances ==
    [][\A c \in Slots :
         (/\ resumes(c) /\ writeOk
          /\ cycles[c].msg # null /\ lastSeenId # null
          /\ cycles[c].msg # lastSeenId
          /\ includes(bodyOf(cycles[c].msg), handle))
           => /\ lastSeenId' = cycles[c].msg
              /\ cacheFile' = stringify(cycles[c].msg)
              /\ dispatches' = dispatches]_vars

\* C8: with the watermark set, the continuation of a fetch of a different
\* id whose body does not contain the handle and contains "check room" in
\* any casing, or "@" + handle, starts exactly one dispatch and sets the
\* watermark to that id (the write succeeding).
C8_TriggerDispatchesOnce ==
    [][\A c \in Slots :
         (/\ resumes(c) /\ writeOk
          /\ cycles[c].msg # null /\ lastSeenId # null
          /\ cycles[c].msg # lastSeenId
          /\ ~includes(bodyOf(cycles[c].msg), handle)
          /\ \/ includes(toLowerCase(bodyOf(cycles[c].msg)), StrCheckRoom)
             \/ includes(bodyOf(cycles[c].msg), StrAt \o handle))
           => /\ lastSeenId' = cycles[c].msg
              /\ cacheFile' = stringify(cycles[c].msg)
              /\ dispatches' = [dispatches EXCEPT
                                  ![cycles[c].msg] = dispatches[cycles[c].msg] + 1]]_vars

\* C9: handle "bot", watermark none; the polls fetch m1 "hello", m1 again,
\* then m2 "@bot please check room".  After poll 1 and after poll 2 the
\* watermark is m1 and nothing was dispatched; after poll 3 the watermark
\* is m2 and exactly one dispatch has begun.
C9_Scenario ==
    (Idle /\ handleArg = StrBot /\ nWriteFails = 0)
      => /\ nCycles \in {1, 2}
           => (lastSeenId = 1 /\ total(1) = 0 /\ total(2) = 0)
         /\ (nCycles = 3 /\ Len(room) = 2 /\ bodyOf(2) = BodyMention)
           => (lastSeenId = 2 /\ total(1) = 0 /\ total(2) = 1)

\* C10: after a failed write of the watermark the loop stops: no further
\* poll cycle starts and no dispatch begins in that process.
C10_WriteFailureFatal ==
    [][(writeFailed /\ nCrashes' = nCrashes)
         => (nCycles' = nCycles /\ dispatches' = dispatches)]_vars

\* C11: a failed fetch ends the cycle with the watermark unchanged in
\* memory and on disk and with no dispatch; the slot of the cycle is free
\* again, so later ticks keep polling.
C11_FetchFailFrame ==
    [][\A c \in Slots :
         (cycles[c].pc = "fetch" /\ cycles'[c].pc = "none"
          /\ nCrashes' = nCrashes)
           => /\ lastSeenId' = lastSeenId
              /\ cacheFile' = cacheFile
              /\ dispatches' = dispatches
              /\ writeFailed' = writeFailed
              /\ nCycles' = nCycles
              /\ \A d \in Slots \ {c} : cycles'[d] = cycles[d]]_vars

\* C11 witness: a fetch has just failed while a watermark was set; memory
\* and file still hold it.
C11_Witness ==
    /\ last.ev = "fetchFail"
    /\ Idle
    /\ lastSeenId # null
    /\ cacheFile = stringify(lastSeenId)
    /\ nCycles < MaxCycles

\* C12: when tmux is unreachable at dispatch time nothing is injected, the
\* cycle ends without raising, the watermark stays at the advanced id, and
\* the same message is not dispatched again on a later poll.
C12_UnreachableNoRetry ==
    [][/\ \A m \in unreachable :
            nCrashes' = nCrashes => dispatches'[m] = dispatches[m]
       /\ \A c \in Slots :
            (cycles[c].pc = firstDispatchStep /\ cycles'[c].pc = "none"
             /\ nCrashes' = nCrashes)
              => /\ lastSeenId' = lastSeenId
                 /\ cacheFile' = cacheFile]_vars

\* C13: a crash during the save of a watermark leaves the old record or the
\* new one in the cache file, never a corrupt one, and a watermark that was
\* stored is never loaded as none after such a crash.
C13_AtomicSave ==
    [][nCrashes' > nCrashes
         => /\ \/ cacheFile' = cacheFile
               \/ \E m \in MsgIds : cacheFile' = stringify(m)
            /\ loadCache(cacheFile) # null => lastSeenId' # null]_vars

C15_NoInterleavedDispatch ==
    nCrashes = 0 =>
      Cardinality({c \in Slots :
                     cycles[c].pc \in {"inject", "settle", "submit"}}) <= 1

\* C16: every poll cycle that starts eventually finishes, even when the
\* network never answers.
C16_CycleFinishes ==
    \A c \in Slots : (cycles[c].pc # "none") ~> (cycles[c].pc = "none")

\* C17: the continuation of a fetch that returned nothing, or the message
\* the watermark already names, changes neither the watermark nor the cache
\* file, fails no write and starts no dispatch.
C17_NoChangeOnEmptyOrSame ==
    [][\A c \in Slots :
         (resumes(c)
          /\ (cycles[c].msg = null \/ cycles[c].msg = lastSeenId))
           => /\ lastSeenId' = lastSeenId
              /\ cacheFile' = cacheFile
              /\ dispatches' = dispatches
              /\ nWriteFails' = nWriteFails
              /\ writeFailed' = writeFailed
              /\ cycles'[c].pc = "none"]_vars

\* C17 witness: within one lifetime a poll has just fetched the message the
\* watermark names, a message that carries the trigger phrase, while the
\* cache file does not hold that watermark (its write had failed).
C17_Witness ==
    /\ nCrashes = 0 /\ Idle
    /\ lastSeenId # null
    /\ last = [ev |-> "notNew", msg |-> lastSeenId]
    /\ bodyOf(lastSeenId) = BodyShout
    /\ cacheFile # stringify(lastSeenId)
    /\ total(lastSeenId) = 0

\* the record f carries every field a save of x writes, with the value x
holdsSaved(f, x) ==
    /\ f.st = "json"
    /\ \A k \in DOMAIN stringify(x).obj :
         k \in DOMAIN f.obj /\ f.obj[k] = stringify(x).obj[k]

\* C18: with no cache file the load yields none; a restart that finds the
\* record of a save of x, with or without unknown additional fields, loads
\* exactly x.
C18_LoadSaveRoundTrip ==
    /\ [](last.ev = "load" /\ cacheFile.st = "absent" => lastSeenId = null)
    /\ [][(nCrashes' > nCrashes /\ cacheFile' = cacheFile)
            => \A x \in MsgIds :
                 holdsSaved(cacheFile, x) => lastSeenId' = x]_vars

\* C18 witness: a restart has just loaded a watermark from a record that
\* carries an unknown field.
C18_Witness ==
    /\ last.ev = "load"
    /\ last.msg # null
    /\ lastSeenId = last.msg
    /\ "note" \in DOMAIN cacheFile.obj
    /\ holdsSaved(cacheFile, lastSeenId)

\* C19: the watermark is none or the id of a message that was the newest of
\* the room at some fetch; a message that never was is named neither by the
\* watermark nor by the cache file and is never dispatched.
C19_OnlyNewestObserved ==
    /\ lastSeenId = null \/ lastSeenId \in wasNewest
    /\ \A m \in MsgIds \ wasNewest :
         total(m) = 0 /\ cacheFile # stringify(m)

\* C19 witness: two messages were posted between two polls; the first one,
\* which carries the trigger phrase, was never fetched and the watermark
\* names the second.
C19_Witness ==
    /\ Idle /\ nCycles >= 2 /\ nCrashes = 0
    /\ Len(room) = 2
    /\ wasNewest = {2}
    /\ lastSeenId = 2
    /\ bodyOf(1) = BodyShout
    /\ total(1) = 0

\* C20: every gateway call returns a result and never throws: ok:false
\* exactly when the transport command failed or timed out, and otherwise
\* ok:true with the parsed JSON response or, when the response is not
\* JSON, its trimmed raw text.
C20_GatewayResult ==
    request.pc = "done" =>
        /\ reply.kind \in {"ok", "fail"}
        /\ reply.kind = "fail" <=> request.out.exit # "ok"
        /\ reply.kind = "ok" =>
             reply.data =
                IF isJSON(request.out.stdout)
                THEN JSONparse(request.out.stdout)
                ELSE [type |-> "string", text |-> trim(request.out.stdout)]

\* positions of a cycle inside the dispatch sequence
DispatchPcs == {"probe", "inject", "settle", "submit"}

\* C21: the comparison with the watermark and the assignment run as one
\* step, and of two overlapping cycles that fetched the same id at most one
\* advances the watermark and reaches the dispatch step for it: two cycles
\* in flight at once are never both in the dispatch sequence for one id.
C21_OneOfOverlappingAdvances ==
    \A c \in Slots : \A d \in Slots \ {c} :
        ~(/\ cycles[c].pc \in DispatchPcs
          /\ cycles[d].pc \in DispatchPcs
          /\ cycles[c].msg = cycles[d].msg)

C23_MemoryEqualsPersisted ==
    ~writeFailed => lastSeenId = loadCache(cacheFile)

\* C23 witness: a cycle has just advanced a set watermark and written it,
\* and another cycle is suspended.
C23_Witness ==
    /\ ~writeFailed
    /\ last.ev = "new"
    /\ lastSeenId = last.msg
    /\ cacheFile = stringify(lastSeenId)
    /\ \E c \in Slots : cycles[c].pc \in {"fetch", "resp"}

C25_MemoryRoundTrip ==
    /\ [](memory.op.name = "set" =>
            memoryGet(memory.dir, memory.op.key)
              = [found |-> TRUE, content |-> memory.op.value])
    /\ [](memory.op.name = "delete" =>
            memoryGet(memory.dir, memory.op.key)
              = [found |-> FALSE, content |-> <<>>])
    /\ [][memory' # memory =>
            /\ memory'.op.name = "get" =>
                 /\ memory'.dir = memory.dir
                 /\ memory'.op.found
                      = memoryGet(memory.dir, memory'.op.key).found
                 /\ memory'.op.content
                      = memoryGet(memory.dir, memory'.op.key).content
            /\ \A k \in Keys :
                 keyToPath(k) # keyToPath(memory'.op.key) =>
                   memoryGet(memory'.dir, k) = memoryGet(memory.dir, k)]_vars

\* C25 witness: memoryGet("a.md") has returned the non-ASCII value that is
\* stored in a.md while A.md and a-b.md exist beside it.
C25_Witness ==
    /\ memory.op.name = "get"
    /\ memory.op.key = KeyAMd
    /\ memory.op.found
    /\ memory.op.content = <<233, 8364, 10>>
    /\ keyToPath(KeyCapA) \in DOMAIN memory.dir
    /\ keyToPath(KeyASlashB) \in DOMAIN memory.dir
    /\ keyToPath(KeyASlashB) = keyToPath(KeyADashB)

====
